---- MODULE Spec2Model ----
(***************************************************************************)
(* The drag gesture engine of use-gesture                                  *)
(* (packages/core/src/engines/DragEngine.ts) as a state machine.           *)
(*                                                                         *)
(* One engine instance is modelled.  `state` is the engine's GestureState, *)
(* `config` its resolved configuration, `timeoutStore` the two named       *)
(* timers ('dragDelay', 'startPointerDrag'), `eventStore` the window touch *)
(* listeners added by setupScrollPrevention, `cancelTimeouts` the number   *)
(* of setTimeout(..., 0) callbacks queued by cancel().  Every handler runs *)
(* to completion in one step (single-threaded event loop).                 *)
(*                                                                         *)
(* The generic engine (start, compute, emit, clean, reset of the base      *)
(* class), the timeout store and the event helpers are not part of         *)
(* DragEngine.ts; they are modelled from the description of the            *)
(* Kinematics Provider, the Event/Timer Registrar and the lifecycle notes. *)
(* Configuration assumed for those parts: threshold 0 (every computed      *)
(* frame is intentional), no axis / lockDirection (never blocked), no      *)
(* bounds, no rubberband, pointerCapture on.  `pointerLock` is the state of *)
(* document.pointerLockElement with respect to the target.                 *)
(***************************************************************************)
EXTENDS Integers, Sequences, FiniteSets, TLC

VARIABLES
  state,          \* this.state
  config,         \* this.config (fixed after construction)
  env,            \* the inputs the environment draws from (fixed)
  timeoutStore,   \* this.timeoutStore: key -> captured event, or NoEvent
  eventStore,     \* window touch listeners registered (scroll prevention)
  pointerLock,    \* the pointer lock of the target: none, requested or held
  cancelTimeouts, \* pending setTimeout callbacks of cancel()
  now,            \* timestamp of the latest input event
  nEvents,        \* number of input events delivered so far
  op,             \* the handler that ran last
  origin,         \* where the last pointer event came from
  emitted,        \* handler invocations made by the last step
  sumDeltas,      \* running sum of the deltas of the accepted events
  canceledEmits,  \* emissions made by cancel callbacks in the current gesture
  lastKey,        \* <<key, shiftKey, altKey>> of the key press just handled
  keyed,          \* an arrow key event was handled in the current gesture
  staleCancels,   \* pending cancel callbacks queued in an earlier gesture
  drags,          \* startPointerDrag runs since the last accepted pointerDown
  rejected        \* the current pointer press was rejected as a scroll

vars == <<state, config, env, timeoutStore, eventStore, pointerLock,
          cancelTimeouts, now,
          nEvents, op, origin, emitted, sumDeltas, canceledEmits, lastKey,
          keyed, staleCancels, drags, rejected>>

----------------------------------------------------------------------------
(* Bounds of the exploration *)

MaxEvents == 3
MaxEventsDeep == 6
MaxPendingCancels == 2
MaxEventsKeys == 4

(* Program constants *)

DISPLACEMENT == 10
TAP_DISTANCE == 3

Undefined == 0 - 1

LockMovements == {<<4, 0>>, <<0 - 1, 0>>, <<0, 4>>, <<4, 4>>}

\* The inputs of a run: pointer ids, pointer positions at pointer-down and
\* afterwards, time between events, keys pressed (<<key, shiftKey, altKey>>)
\* and released, the number of input events, the number of cancel callbacks
\* that may be pending, and whether code outside the engine locks the pointer
\* to the target.
WideEnv ==
  [ids |-> {0, 1},
   downPoints |-> {<<0, 0>>},
   points |-> {<<0, 0>>, <<3, 0>>, <<0, 4>>, <<4, 4>>},
   steps |-> {0, 1},
   keyInputs |-> {<<"ArrowRight", FALSE, TRUE>>, <<"ArrowUp", FALSE, FALSE>>,
                  <<"Enter", FALSE, FALSE>>},
   releasedKeys |-> {"ArrowRight", "Enter"},
   maxEvents |-> MaxEvents,
   maxCancels |-> 1,
   otherLock |-> FALSE]

DeepEnv ==
  [ids |-> {1},
   downPoints |-> {<<3, 0>>},
   points |-> {<<0, 0>>, <<3, 0>>, <<0, 4>>},
   steps |-> {0, 1},
   keyInputs |-> {<<"ArrowRight", FALSE, TRUE>>},
   releasedKeys |-> {"ArrowRight"},
   maxEvents |-> MaxEventsDeep,
   maxCancels |-> 1,
   otherLock |-> FALSE]

ArrowKeys == {"ArrowRight", "ArrowLeft", "ArrowUp", "ArrowDown"}

\* KEYS_DELTA_MAP is an object literal: looking a key up in it also finds
\* what it inherits from Object.prototype.  Called as deltaFn(factor), some
\* of these return a value that is not a vector ('toString' the string
\* "[object Undefined]", whose components are "[" and "o"; the others an
\* object, whose components are undefined), the others throw a TypeError
\* ('__proto__' is not a function at all).
CallableKeys == {"toString", "constructor", "isPrototypeOf"}
ThrowingKeys ==
  {"__proto__", "valueOf", "hasOwnProperty", "toLocaleString",
   "propertyIsEnumerable", "__defineGetter__", "__defineSetter__",
   "__lookupGetter__", "__lookupSetter__"}
InheritedKeys == CallableKeys \cup ThrowingKeys

\* several cancel() calls pending at once
CancelEnv ==
  [ids |-> {1},
   downPoints |-> {<<0, 0>>},
   points |-> {<<3, 0>>, <<0, 4>>},
   steps |-> {1},
   keyInputs |-> {<<"ArrowRight", FALSE, FALSE>>},
   releasedKeys |-> {"ArrowRight"},
   maxEvents |-> MaxEvents,
   maxCancels |-> MaxPendingCancels,
   otherLock |-> FALSE]

\* a press on a target that requests the pointer lock while the scroll
\* prevention or the delay is pending
LockEnv ==
  [ids |-> {1},
   downPoints |-> {<<0, 0>>},
   points |-> {<<3, 0>>, <<4, 4>>},
   steps |-> {1},
   keyInputs |-> {<<"ArrowRight", FALSE, FALSE>>},
   releasedKeys |-> {"ArrowRight"},
   maxEvents |-> MaxEvents,
   maxCancels |-> 0,
   otherLock |-> FALSE]

\* every arrow key with every combination of the shift and alt modifiers
KeyEnv ==
  [ids |-> {1},
   downPoints |-> {<<0, 0>>},
   points |-> {<<3, 0>>},
   steps |-> {1},
   keyInputs |-> (ArrowKeys \X BOOLEAN \X BOOLEAN)
                   \cup {<<"Enter", TRUE, FALSE>>,
                         <<"toString", FALSE, FALSE>>,
                         <<"valueOf", FALSE, FALSE>>},
   releasedKeys |-> {"ArrowLeft", "toString"},
   maxEvents |-> MaxEvents,
   maxCancels |-> 1,
   otherLock |-> TRUE]
\* a pointer drag along y during which keys are pressed whose delta is a
\* string, an object, or a vector
StringEnv ==
  [ids |-> {1},
   downPoints |-> {<<0, 0>>},
   points |-> {<<0, 1>>, <<0, 5>>},
   steps |-> {0, 1},
   keyInputs |-> {<<"toString", FALSE, FALSE>>,
                  <<"constructor", FALSE, FALSE>>,
                  <<"ArrowDown", FALSE, FALSE>>},
   releasedKeys |-> {"toString"},
   maxEvents |-> MaxEventsKeys,
   maxCancels |-> 0,
   otherLock |-> FALSE]
TimerKeys == {"dragDelay", "startPointerDrag"}

Zero == <<0, 0>>
NoKey == <<"", FALSE, FALSE>>

----------------------------------------------------------------------------
(* Vector helpers (utils/maths) *)

\* A component of a vector is a number, or one of the values below, which
\* are kept apart from the numbers of the model by their range.
\*  - NaN: NaN, undefined, or a string that does not read as a number and
\*    never will, whatever is appended to it ("5[", "3o1", "0o1-4"); they
\*    behave alike in every operation below.
\*  - CharO: the string "o", second character of "[object Undefined]".
\*  - EmptyOctal: the string "0o", which reads as NaN.
\*  - OctalString(t): the string "0o" followed by the octal digits t, which
\*    reads as a number: OctalString(14) is "0o14" and reads as 12.
NaN == 0 - 1000000
CharO == 0 - 1000001
EmptyOctal == 0 - 1000002
OctalZero == 0 - 2000000
OctalString(t) == OctalZero - t

\* Number(x): a number is itself, "0o" followed by octal digits is the
\* number they write in base 8, anything else is NaN
RECURSIVE ToNumber(_)
ToNumber(x) ==
  IF x > NaN THEN x
  ELSE IF x > OctalZero THEN NaN
  ELSE IF x > OctalZero - 10 THEN OctalZero - x
  ELSE (8 * ToNumber(OctalString((OctalZero - x) \div 10)))
         + ((OctalZero - x) % 10)

\* a + b when one side is not a number.  0 + "o" is "0o".  A string "0o..."
\* plus a number is the string followed by the text of the number, which
\* still reads as a number only if that text is made of octal digits.
\* Everything else is NaN or a string that never reads as a number.
RECURSIVE Concat(_, _)
Concat(a, b) ==
  IF b = CharO THEN (IF a = 0 THEN EmptyOctal ELSE NaN)
  ELSE IF a > EmptyOctal \/ b < 0 THEN NaN
  ELSE IF b < 10
  THEN (IF b > 7 THEN NaN
        ELSE IF a = EmptyOctal THEN OctalString(b)
        ELSE OctalString((10 * (OctalZero - a)) + b))
  ELSE Concat(Concat(a, b \div 10), b % 10)

AbsNumber(x) == IF x = NaN THEN NaN ELSE IF x < 0 THEN 0 - x ELSE x
SignNumber(x) ==
  IF x = NaN THEN NaN ELSE IF x < 0 THEN 0 - 1 ELSE IF x > 0 THEN 1 ELSE 0
\* Math.abs and Math.sign read their argument as a number
Abs(n) == AbsNumber(ToNumber(n))
Sign(n) == SignNumber(ToNumber(n))
\* a + b: addition of numbers, concatenation as soon as one side is a string
Plus(a, b) == IF a > NaN /\ b > NaN THEN a + b ELSE Concat(a, b)
\* a - b: both sides are read as numbers
MinusNumbers(x, y) == IF x = NaN \/ y = NaN THEN NaN ELSE x - y
Minus(a, b) == MinusNumbers(ToNumber(a), ToNumber(b))
\* a > b and a <= b: both sides are read as numbers; false as soon as one
\* is not a number
GtNumbers(x, y) == x # NaN /\ y # NaN /\ x > y
LeNumbers(x, y) == x # NaN /\ y # NaN /\ x <= y
Gt(a, b) == GtNumbers(ToNumber(a), ToNumber(b))
Le(a, b) == LeNumbers(ToNumber(a), ToNumber(b))
VAdd(a, b) == <<Plus(a[1], b[1]), Plus(a[2], b[2])>>
VSub(a, b) == <<Minus(a[1], b[1]), Minus(a[2], b[2])>>
VAbs(a) == <<Abs(a[1]), Abs(a[2])>>
VSign(a) == <<Sign(a[1]), Sign(a[2])>>

----------------------------------------------------------------------------
(* Events *)

NoEvent ==
  [type |-> "none", pointerId |-> Undefined, values |-> Zero, timeStamp |-> 0,
   movement |-> Zero, key |-> "", shiftKey |-> FALSE, altKey |-> FALSE]

PointerEvent(type, id, p, t, m) ==
  [type |-> type, pointerId |-> id, values |-> p, timeStamp |-> t,
   movement |-> m, key |-> "", shiftKey |-> FALSE, altKey |-> FALSE]

KeyboardEvent(type, k, shift, alt, t) ==
  [type |-> type, pointerId |-> Undefined, values |-> Zero, timeStamp |-> t,
   movement |-> Zero, key |-> k, shiftKey |-> shift, altKey |-> alt]

pointerId(event) == event.pointerId
pointerValues(event) == event.values

----------------------------------------------------------------------------
(* Configurations *)

Config(ps, axis, delay, filterTaps, lock) ==
  [preventScroll |-> ps, preventScrollAxis |-> axis, delay |-> delay,
   filterTaps |-> filterTaps, pointerLock |-> lock,
   swipeVelocity |-> <<2, 2>>, swipeDistance |-> <<2, 3>>,
   swipeDuration |-> 2]

Configs ==
  { Config(0, "y", 0, FALSE, FALSE),
    Config(0, "y", 0, TRUE, FALSE),
    Config(0, "y", 180, FALSE, FALSE),
    Config(250, "y", 0, FALSE, FALSE),
    Config(250, "x", 0, FALSE, FALSE),
    Config(250, "xy", 180, FALSE, FALSE),
    Config(0, "y", 0, FALSE, TRUE) }

DeepConfigs ==
  { Config(0, "y", 0, FALSE, FALSE),
    Config(0, "y", 0, TRUE, FALSE) }

CancelConfigs ==
  { Config(0, "y", 0, FALSE, FALSE),
    Config(0, "y", 180, FALSE, FALSE),
    Config(250, "y", 0, FALSE, FALSE) }

LockConfigs ==
  { Config(250, "x", 0, FALSE, TRUE),
    Config(250, "xy", 0, FALSE, TRUE),
    Config(0, "y", 180, FALSE, TRUE) }

Scenarios ==
  [config : Configs, env : {WideEnv}]
    \cup [config : DeepConfigs, env : {DeepEnv}]
    \cup [config : {Config(0, "y", 0, FALSE, FALSE)}, env : {KeyEnv}]
    \cup [config : CancelConfigs, env : {CancelEnv}]
    \cup [config : {Config(0, "y", 0, FALSE, FALSE)}, env : {StringEnv}]
    \cup [config : LockConfigs, env : {LockEnv}]

----------------------------------------------------------------------------
(* Generic engine: reset, start, compute, emit, clean *)

NoTimers == [k \in TimerKeys |-> NoEvent]

EngineReset(s) ==
  [s EXCEPT !._active = FALSE, !.active = FALSE, !._force = FALSE,
            !._movement = Zero, !._distance = Zero, !._delta = Zero,
            !.axis = "undefined", !.elapsedTime = 0,
            !.direction = Zero, !.velocity = Zero, !.timeDelta = 1,
            !.movement = Zero, !.timeStamp = 0]

EngineClean(this) ==
  [this EXCEPT !.eventStore = FALSE, !.timeoutStore = NoTimers]

selectAxis(m) ==
  IF Gt(Abs(m[1]), Abs(m[2])) /\ Gt(Abs(m[1]), 0) THEN "x"
  ELSE IF Gt(Abs(m[2]), Abs(m[1])) /\ Gt(Abs(m[2]), 0) THEN "y"
  ELSE "undefined"

axisIntent(s, event) ==
  IF s.axis = "undefined" /\ event.type # "none"
  THEN [s EXCEPT !.axis = selectAxis(s._movement)]
  ELSE s

\* compute, step by step: the event's type and time are recorded
stamp(s, event) ==
  IF event.type # "none"
  THEN [s EXCEPT !.type = event.type,
                 !.timeStamp = event.timeStamp,
                 !.elapsedTime = event.timeStamp - s.startTime]
  ELSE s

\* the distance grows by the size of the raw delta
accumulate(s) ==
  IF s._active THEN [s EXCEPT !._distance = VAdd(@, VAbs(s._delta))] ELSE s

\* an active gesture publishes its state and its movement
publish(s, event) ==
  IF s._active \/ s.active
  THEN [s EXCEPT !.active = s._active,
                 !.movement = IF event.type # "none" THEN s._movement ELSE @]
  ELSE s

\* direction and velocity, from the movement published before this event
\* (state `before`) to the one published now (state s)
kinematics(s, before, dt) ==
  LET gestureIsActive == before._active \/ before.active
      first == before._active /\ ~before.active
      last == ~before._active /\ before.active
      delta == VSub(s.movement, before.movement)
      kin == ~first /\ dt > 0
  IN IF gestureIsActive /\ ~last
     THEN [s EXCEPT !.direction = VSign(delta),
                    !.velocity = IF kin THEN VAbs(delta) ELSE @,
                    !.timeDelta = IF kin THEN dt ELSE @]
     ELSE s

settle(s, event, dt) == kinematics(publish(s, event), s, dt)

compute(this, event) ==
  [this EXCEPT !.state =
     settle(axisIntent(accumulate(stamp(@, event)), event), event,
            IF event.type # "none" THEN event.timeStamp - @.timeStamp ELSE 0)]

----------------------------------------------------------------------------
(* DragEngine *)

reset(s) ==
  [EngineReset(s) EXCEPT !._pointerId = Undefined, !._pointerActive = FALSE,
                         !._keyboardActive = FALSE, !._preventScroll = FALSE,
                         !._delayed = FALSE, !.swipe = Zero, !.tap = FALSE,
                         !.canceled = FALSE]

start(this, event) ==
  LET s == this.state
      s1 == IF ~s._active
            THEN [reset(s) EXCEPT !.initial = s.values, !._active = TRUE]
            ELSE s
  IN [this EXCEPT !.state = [s1 EXCEPT !.startTime = event.timeStamp,
                                       !.timeStamp = event.timeStamp]]

\* document.exitPointerLock() when the target holds the lock
pointerClean(this) ==
  IF config.pointerLock /\ this.pointerLock = "held"
  THEN [this EXCEPT !.pointerLock = "none"]
  ELSE this

clean_keepPointer(this) ==
  EngineClean([pointerClean(this) EXCEPT !.state._keyboardActive = FALSE])

clean(this) ==
  EngineClean([pointerClean(this) EXCEPT !.state._pointerActive = FALSE,
                                         !.state._keyboardActive = FALSE])

emit(this) ==
  LET t == IF ~this.state._active THEN clean(this) ELSE this
  IN [t EXCEPT !.emitted = @ + 1]

setActive(s) ==
  [s EXCEPT !._active = s._pointerActive \/ s._keyboardActive]

startPointerDrag_keepDelayed(this, event) ==
  LET t == [this EXCEPT !.state._active = TRUE,
                        !.state._preventScroll = TRUE,
                        !.drags = @ + 1]
  IN emit(compute(t, event))

startPointerDrag(this, event) ==
  LET t == [this EXCEPT !.state._active = TRUE,
                        !.state._preventScroll = TRUE,
                        !.state._delayed = FALSE,
                        !.drags = @ + 1]
  IN emit(compute(t, event))

setupScrollPrevention(this, event) ==
  [this EXCEPT !.eventStore = TRUE,
               !.timeoutStore["startPointerDrag"] = event]

setupDelayTrigger(this, event) ==
  [this EXCEPT !.state._delayed = TRUE,
               !.timeoutStore["dragDelay"] = event]

\* requestPointerLock() when the configuration asks for it
setupPointer(this) ==
  IF config.pointerLock /\ this.pointerLock = "none"
  THEN [this EXCEPT !.pointerLock = "requested"]
  ELSE this

beginPointerDrag_delayFirst(this, event) ==
  LET t1 == setupPointer(start(this, event))
      t2 == [t1 EXCEPT !.state._pointerId = pointerId(event),
                       !.state._pointerActive = TRUE,
                       !.state.values = pointerValues(event),
                       !.state.initial = pointerValues(event)]
  IN IF config.delay > 0 THEN setupDelayTrigger(t2, event)
     ELSE IF config.preventScroll # 0 THEN setupScrollPrevention(t2, event)
     ELSE startPointerDrag(t2, event)

\* pointerDown past its guard
beginPointerDrag(this, event) ==
  LET t1 == setupPointer(start(this, event))
      t2 == [t1 EXCEPT !.state._pointerId = pointerId(event),
                       !.state._pointerActive = TRUE,
                       !.state.values = pointerValues(event),
                       !.state.initial = pointerValues(event)]
  IN IF config.preventScroll # 0 THEN setupScrollPrevention(t2, event)
     ELSE IF config.delay > 0 THEN setupDelayTrigger(t2, event)
     ELSE startPointerDrag(t2, event)

pointerDown_anyTime(this, event) == beginPointerDrag(this, event)

pointerDown(this, event) ==
  IF this.state._pointerActive THEN this
  ELSE beginPointerDrag(this, event)

\* state._pointerId && id !== state._pointerId
otherPointer(s, id) ==
  s._pointerId # Undefined /\ s._pointerId # 0 /\ id # s._pointerId

sameSample(s, event) ==
  s.type = event.type /\ event.timeStamp = s.timeStamp

\* a move during the delay: the timer is removed and the drag starts
preemptDelay(this, event) ==
  startPointerDrag([this EXCEPT !.timeoutStore["dragDelay"] = NoEvent], event)

rejectScroll_keepPress(this) ==
  [this EXCEPT !.state._active = FALSE, !.rejected = TRUE]

\* the axis is the one whose scroll is to be let through
rejectScroll(this) ==
  clean([this EXCEPT !.state._active = FALSE, !.rejected = TRUE])

\* the axis is another one: the timer is removed and the drag starts
acceptScroll(this, event) ==
  startPointerDrag(
    [this EXCEPT !.timeoutStore["startPointerDrag"] = NoEvent], event)

swallow_emit(this) == emit(this)

\* the axis is not known yet: return without emitting
swallow(this) == this

pointerMove(this, event, locked) ==
  LET s == this.state IN
  IF ~s._pointerActive THEN this
  ELSE IF sameSample(s, event) THEN this
  ELSE IF otherPointer(s, pointerId(event)) THEN this
  ELSE
    LET values == pointerValues(event)
        delta == IF locked THEN event.movement ELSE VSub(values, s.values)
        t1 == [this EXCEPT !.state._delta = delta,
                           !.state.values = IF locked THEN @ ELSE values]
        t2 == [t1 EXCEPT !.state._movement = VAdd(@, delta)]
        t3 == compute(t2, event)
    IN IF t3.state._delayed
       THEN preemptDelay(t3, event)
       ELSE IF config.preventScroll # 0 /\ ~t3.state._preventScroll
       THEN IF t3.state.axis # "undefined"
            THEN IF t3.state.axis = config.preventScrollAxis
                    \/ config.preventScrollAxis = "xy"
                 THEN rejectScroll(t3)
                 ELSE acceptScroll(t3, event)
            ELSE swallow(t3)
       ELSE emit(t3)

isTap_strict(d) == Le(d[1], TAP_DISTANCE - 1) /\ Le(d[2], TAP_DISTANCE - 1)

isTap(d) == Le(d[1], TAP_DISTANCE) /\ Le(d[2], TAP_DISTANCE)

\* Math.abs(v) > sv, with v kept as the exact fraction velocity / timeDelta
fasterThan(s, i, sv) == Gt(Abs(s.velocity[i]), sv * s.timeDelta)

swipeAxis(s, i, old) ==
  IF fasterThan(s, i, config.swipeVelocity[i])
     /\ Gt(Abs(s.movement[i]), config.swipeDistance[i])
  THEN s.direction[i]
  ELSE old

classifySwipe_anyDuration(s) ==
  [s EXCEPT !.swipe = <<swipeAxis(s, 1, s.swipe[1]),
                        swipeAxis(s, 2, s.swipe[2])>>]

classifySwipe(s) ==
  IF s.elapsedTime < config.swipeDuration
  THEN [s EXCEPT !.swipe = <<swipeAxis(s, 1, s.swipe[1]),
                             swipeAxis(s, 2, s.swipe[2])>>]
  ELSE s

pointerUp(this, event) ==
  LET s == this.state IN
  IF ~s._pointerActive THEN this
  ELSE IF otherPointer(s, pointerId(event)) THEN this
  ELSE
    LET t1 == [this EXCEPT !.state = setActive([s EXCEPT !._pointerActive = FALSE])]
        t2 == compute(t1, event)
        s2 == [t2.state EXCEPT !.tap = isTap(t2.state._distance)]
        s3 == IF s2.tap /\ config.filterTaps
              THEN [s2 EXCEPT !._force = TRUE]
              ELSE classifySwipe(s2)
    IN emit([t2 EXCEPT !.state = s3])

\* the factor in tenths: shift 10, alt 0.1, else 1
keyFactor(event) ==
  IF event.shiftKey THEN 100 ELSE IF event.altKey THEN 1 ELSE 10

KEYS_DELTA_MAP(key, factor) ==
  CASE key = "ArrowRight" -> <<(DISPLACEMENT * factor) \div 10, 0>>
    [] key = "ArrowLeft" -> <<0 - ((DISPLACEMENT * factor) \div 10), 0>>
    [] key = "ArrowUp" -> <<0, 0 - ((DISPLACEMENT * factor) \div 10)>>
    [] key = "ArrowDown" -> <<0, (DISPLACEMENT * factor) \div 10>>
    [] key = "toString" -> <<NaN, CharO>>
    [] key \in CallableKeys \ {"toString"} -> <<NaN, NaN>>

\* KEYS_DELTA_MAP[event.key] is truthy
hasDeltaFn(key) == key \in ArrowKeys \cup InheritedKeys

\* no key of the map, or deltaFn(factor) throws before anything is written
keyDown(this, event) ==
  IF ~hasDeltaFn(event.key) THEN this
  ELSE IF event.key \in ThrowingKeys THEN this
  ELSE
    LET delta == KEYS_DELTA_MAP(event.key, keyFactor(event))
        t1 == start([this EXCEPT !.state._delta = delta], event)
        t2 == [t1 EXCEPT !.state._keyboardActive = TRUE,
                         !.state._movement = VAdd(@, t1.state._delta)]
    IN emit(compute(t2, event))

\* event.key in KEYS_DELTA_MAP
keyUp(this, event) ==
  IF event.key \notin ArrowKeys \cup InheritedKeys THEN this
  ELSE
    LET t1 == [this EXCEPT !.state =
                 setActive([this.state EXCEPT !._keyboardActive = FALSE])]
    IN emit(compute(t1, event))

cancelCallback_keepActive(this) ==
  emit(compute([this EXCEPT !.state.canceled = TRUE], NoEvent))

\* the callback queued by cancel()
cancelCallback(this) ==
  emit(compute([this EXCEPT !.state.canceled = TRUE,
                            !.state._active = FALSE], NoEvent))

----------------------------------------------------------------------------
(* The state machine *)

This ==
  [state |-> state, timeoutStore |-> timeoutStore, eventStore |-> eventStore,
   pointerLock |-> pointerLock, emitted |-> 0, drags |-> 0, rejected |-> FALSE]

InitialState ==
  [_active |-> FALSE, active |-> FALSE, _force |-> FALSE,
   _movement |-> Zero, _distance |-> Zero, _delta |-> Zero,
   axis |-> "undefined", elapsedTime |-> 0, direction |-> Zero,
   velocity |-> Zero, timeDelta |-> 1, movement |-> Zero, timeStamp |-> 0,
   startTime |-> 0, type |-> "none", values |-> Zero, initial |-> Zero,
   _pointerId |-> Undefined, _pointerActive |-> FALSE,
   _keyboardActive |-> FALSE, _preventScroll |-> FALSE, _delayed |-> FALSE,
   swipe |-> Zero, tap |-> FALSE, canceled |-> FALSE]

Init ==
  /\ state = InitialState
  /\ \E sc \in Scenarios : config = sc.config /\ env = sc.env
  /\ timeoutStore = NoTimers
  /\ eventStore = FALSE
  /\ pointerLock = "none"
  /\ cancelTimeouts = 0
  /\ now = 0
  /\ nEvents = 0
  /\ op = "init"
  /\ origin = "none"
  /\ emitted = 0
  /\ sumDeltas = Zero
  /\ canceledEmits = 0
  /\ lastKey = NoKey
  /\ keyed = FALSE
  /\ staleCancels = 0
  /\ drags = 0
  /\ rejected = FALSE

\* the engine after a handler, and the bookkeeping that follows from it;
\* `fresh`: the handler began a new gesture (start() ran reset())
Commit(t, fresh) ==
  /\ state' = t.state
  /\ timeoutStore' = t.timeoutStore
  /\ eventStore' = t.eventStore
  /\ pointerLock' = t.pointerLock
  /\ emitted' = t.emitted
  /\ canceledEmits' = IF fresh THEN 0 ELSE canceledEmits

Input(dt) ==
  /\ nEvents < env.maxEvents
  /\ now' = now + dt
  /\ nEvents' = nEvents + 1

\* where a pointer event comes from, relative to the pointer that drives the
\* gesture
Origin(id) ==
  IF ~state._pointerActive THEN "idle"
  ELSE IF id # state._pointerId THEN "foreign"
  ELSE "captured"

PointerDown ==
  \E id \in env.ids, p \in env.downPoints, dt \in {0} :
    LET event == PointerEvent("pointerdown", id, p, now + dt, Zero)
        accepted == ~state._pointerActive
        fresh == accepted /\ ~state._active
        t == pointerDown(This, event)
    IN /\ Input(dt)
       /\ Commit(t, fresh)
       /\ op' = "pointerDown"
       /\ origin' = Origin(id)
       /\ sumDeltas' = IF fresh THEN Zero ELSE sumDeltas
       /\ lastKey' = NoKey
       /\ keyed' = IF fresh THEN FALSE ELSE keyed
       /\ staleCancels' = IF fresh THEN cancelTimeouts ELSE staleCancels
       /\ drags' = IF accepted THEN t.drags ELSE drags
       /\ rejected' = IF accepted THEN FALSE ELSE rejected
       /\ UNCHANGED <<config, env, cancelTimeouts>>

\* document.pointerLockElement === event.target
Locked == pointerLock = "held"

\* under the lock the position stays and the event reports a relative
\* movement; otherwise it reports a new position
PointerMove ==
  \E id \in env.ids, dt \in env.steps,
     p \in (IF Locked THEN {state.values} ELSE env.points),
     m \in (IF Locked THEN LockMovements ELSE {Zero}) :
    LET event == PointerEvent("pointermove", id, p, now + dt, m)
        from == IF Origin(id) = "captured" /\ sameSample(state, event)
                THEN "duplicate" ELSE Origin(id)
        delta == IF Locked THEN m ELSE VSub(p, state.values)
        t == pointerMove(This, event, Locked)
    IN /\ Input(dt)
       /\ Commit(t, FALSE)
       /\ op' = "pointerMove"
       /\ origin' = from
       /\ sumDeltas' = IF from = "captured" THEN VAdd(sumDeltas, delta)
                       ELSE sumDeltas
       /\ lastKey' = NoKey
       /\ drags' = drags + t.drags
       /\ rejected' = (rejected \/ t.rejected)
       /\ UNCHANGED <<config, env, cancelTimeouts, keyed, staleCancels>>

PointerUp ==
  \E id \in env.ids, dt \in env.steps :
    LET event == PointerEvent("pointerup", id, state.values, now + dt, Zero)
    IN /\ Input(dt)
       /\ Commit(pointerUp(This, event), FALSE)
       /\ op' = "pointerUp"
       /\ origin' = Origin(id)
       /\ lastKey' = NoKey
       /\ UNCHANGED <<config, env, cancelTimeouts, sumDeltas, keyed,
                      staleCancels, drags, rejected>>

KeyDown ==
  \E k \in env.keyInputs, dt \in {0} :
    LET event == KeyboardEvent("keydown", k[1], k[2], k[3], now + dt)
        handled == k[1] \in ArrowKeys \cup CallableKeys
        fresh == handled /\ ~state._active
        t == keyDown(This, event)
    IN /\ Input(dt)
       /\ Commit(t, fresh)
       /\ op' = "keyDown"
       /\ origin' = "none"
       /\ sumDeltas' = IF handled
                       THEN VAdd(IF fresh THEN Zero ELSE sumDeltas,
                                 t.state._delta)
                       ELSE sumDeltas
       /\ lastKey' = k
       /\ keyed' = (handled \/ keyed)
       /\ staleCancels' = IF fresh THEN cancelTimeouts ELSE staleCancels
       /\ UNCHANGED <<config, env, cancelTimeouts, drags, rejected>>

KeyUp ==
  \E k \in env.releasedKeys, dt \in {0} :
    LET event == KeyboardEvent("keyup", k, FALSE, FALSE, now + dt)
    IN /\ Input(dt)
       /\ Commit(keyUp(This, event), FALSE)
       /\ op' = "keyUp"
       /\ origin' = "none"
       /\ lastKey' = NoKey
       /\ keyed' = (k \in ArrowKeys \cup InheritedKeys \/ keyed)
       /\ UNCHANGED <<config, env, cancelTimeouts, sumDeltas, staleCancels,
                      drags, rejected>>

\* window 'touchend' / 'touchcancel' listener added by setupScrollPrevention
Clean ==
  /\ eventStore
  /\ Commit(clean(This), FALSE)
  /\ op' = "clean"
  /\ origin' = "none"
  /\ lastKey' = NoKey
  /\ UNCHANGED <<config, env, cancelTimeouts, now, nEvents, sumDeltas, keyed,
                 staleCancels, drags, rejected>>

\* a timer of the timeout store fires with the event captured at pointer-down
TimerFire ==
  \E k \in TimerKeys :
    /\ timeoutStore[k].type # "none"
    /\ LET t == startPointerDrag([This EXCEPT !.timeoutStore[k] = NoEvent],
                                 timeoutStore[k])
       IN Commit(t, FALSE) /\ drags' = drags + t.drags
    /\ op' = k
    /\ origin' = "none"
    /\ lastKey' = NoKey
    /\ UNCHANGED <<config, env, cancelTimeouts, now, nEvents, sumDeltas, keyed,
                   staleCancels, rejected>>

cancel_synchronous ==
  /\ ~state.canceled
  /\ cancelTimeouts < env.maxCancels
  /\ cancelTimeouts' = cancelTimeouts + 1
  /\ state' = [state EXCEPT !.canceled = TRUE, !._active = FALSE]
  /\ UNCHANGED <<config, env, timeoutStore, eventStore, pointerLock, now,
                 nEvents, op,
                 origin, emitted, sumDeltas, canceledEmits, lastKey, keyed,
                 staleCancels, drags, rejected>>

\* cancel(), called by the handler or by any other code between two steps:
\* queues the callback unless the gesture is already canceled
cancel ==
  /\ ~state.canceled
  /\ cancelTimeouts < env.maxCancels
  /\ cancelTimeouts' = cancelTimeouts + 1
  /\ UNCHANGED <<state, config, env, timeoutStore, eventStore, pointerLock,
                 now, nEvents, op,
                 origin, emitted, sumDeltas, canceledEmits, lastKey, keyed,
                 staleCancels, drags, rejected>>

CancelCallback ==
  /\ cancelTimeouts > 0
  /\ cancelTimeouts' = cancelTimeouts - 1
  /\ LET t == cancelCallback(This)
     IN /\ state' = t.state
        /\ timeoutStore' = t.timeoutStore
        /\ eventStore' = t.eventStore
        /\ pointerLock' = t.pointerLock
        /\ emitted' = t.emitted
        /\ canceledEmits' = canceledEmits + t.emitted
  /\ op' = "cancelCallback"
  /\ origin' = "none"
  /\ lastKey' = NoKey
  /\ staleCancels' = IF staleCancels > 0 THEN staleCancels - 1 ELSE 0
  /\ UNCHANGED <<config, env, now, nEvents, sumDeltas, keyed, drags, rejected>>

\* the platform grants or refuses a requested lock, the user leaves a held
\* lock, or other code locks the pointer to the target
PointerLockChange ==
  /\ \/ pointerLock = "requested" /\ pointerLock' \in {"held", "none"}
     \/ pointerLock = "held" /\ pointerLock' = "none"
     \/ pointerLock = "none" /\ env.otherLock /\ pointerLock' = "held"
  /\ UNCHANGED <<state, config, env, timeoutStore, eventStore, cancelTimeouts,
                 now, nEvents, op, origin, emitted, sumDeltas, canceledEmits,
                 lastKey, keyed, staleCancels, drags, rejected>>

Next ==
  \/ PointerDown
  \/ PointerMove
  \/ PointerUp
  \/ KeyDown
  \/ KeyUp
  \/ Clean
  \/ TimerFire
  \/ PointerLockChange
  \/ cancel
  \/ CancelCallback

Spec == Init /\ [][Next]_vars

----------------------------------------------------------------------------
(* Properties *)

\* the step delivers an input event to one of the handlers in `ops`
Delivers(ops) == nEvents' # nEvents /\ op' \in ops

\* C1: in every reachable state _active = _pointerActive \/ _keyboardActive.
C1_ActiveIsOrOfSources ==
  state._active = (state._pointerActive \/ state._keyboardActive)

\* C2: in every reachable state, canceled implies not _active.
C2_CanceledImpliesInactive == state.canceled => ~state._active

C2_Witness == state.canceled /\ op \in {"pointerUp", "pointerMove", "keyUp"}

\* C3: once the cancel callback has fired (canceled = true), a pointerMove or
\* pointerUp leaves the gesture state unchanged and emits nothing.
C3_NoChangeAfterCancel ==
  [][(state.canceled /\ Delivers({"pointerMove", "pointerUp"}))
       => (state' = state /\ emitted' = 0)]_vars

C3_Witness == state.canceled /\ op \in {"pointerUp", "pointerMove"}

\* C4: two cancel() calls during one gesture give exactly one emission with
\* canceled = true.
C4_SingleCanceledEmission == canceledEmits <= 1

\* C5: cancel() changes neither canceled nor _active (nor anything else of
\* the gesture state) in the handler that calls it; the gesture becomes
\* canceled only in the separate callback step, which emits.
C5_CancelIsDeferred ==
  [][/\ (cancelTimeouts' > cancelTimeouts)
          => (state' = state /\ emitted' = emitted /\ op' = op)
     /\ (state'.canceled /\ ~state.canceled)
          => (/\ op' = "cancelCallback"
              /\ cancelTimeouts' = cancelTimeouts - 1
              /\ ~state'._active
              /\ emitted' = 1)]_vars

C5_Witness == cancelTimeouts > 0 /\ ~state.canceled /\ state._active

\* C6: while a pointer is captured, a pointerMove or pointerUp carrying
\* another id changes none of _delta, _movement, values, _pointerActive, tap,
\* swipe and emits nothing.
C6_ForeignPointerIgnored ==
  [][(state._pointerActive /\ Delivers({"pointerMove", "pointerUp"})
        /\ origin' = "foreign")
       => (/\ state'._delta = state._delta
           /\ state'._movement = state._movement
           /\ state'.values = state.values
           /\ state'._pointerActive = state._pointerActive
           /\ state'.tap = state.tap
           /\ state'.swipe = state.swipe
           /\ emitted' = 0)]_vars

\* C7: a pointerDown received while _pointerActive is ignored: the gesture
\* state and the timers are unchanged and nothing is emitted.
C7_SecondPointerDownIgnored ==
  [][(state._pointerActive /\ Delivers({"pointerDown"}))
       => (/\ state' = state
           /\ timeoutStore' = timeoutStore
           /\ eventStore' = eventStore
           /\ emitted' = 0)]_vars

C7_Witness ==
  op = "pointerDown" /\ origin \in {"captured", "foreign"}
    /\ state._pointerActive

\* C8: _movement is the running sum of the deltas of the accepted moves (and
\* key presses) of the gesture; ignored moves contribute nothing.
C8_MovementIsSumOfDeltas == state._movement = sumDeltas

\* C9: after an accepted pointerUp, tap holds exactly when the distance
\* travelled is at most 3 on both axes.
C9_TapIffWithinThreshold ==
  (op = "pointerUp" /\ emitted > 0)
    => (state.tap <=> (Le(state._distance[1], 3) /\ Le(state._distance[2], 3)))

C9_Witness ==
  op = "pointerUp" /\ emitted > 0 /\ state.tap /\ state._distance[1] = 3

\* the swipe component the classification rule gives on axis i
ExpectedSwipe(i) ==
  IF /\ Gt(Abs(state.velocity[i]), config.swipeVelocity[i] * state.timeDelta)
     /\ Gt(Abs(state.movement[i]), config.swipeDistance[i])
  THEN state.direction[i]
  ELSE 0

\* C10: after an accepted pointerUp that is not a filtered tap, within the
\* swipe duration each swipe component is the direction on its axis when
\* velocity and movement exceed their thresholds and 0 otherwise; past the
\* duration swipe is [0, 0].
C10_SwipeClassification ==
  (op = "pointerUp" /\ emitted > 0 /\ ~(state.tap /\ config.filterTaps))
    => IF state.elapsedTime < config.swipeDuration
       THEN state.swipe = <<ExpectedSwipe(1), ExpectedSwipe(2)>>
       ELSE state.swipe = Zero

C10_Witness ==
  op = "pointerUp" /\ emitted > 0 /\ state.swipe[1] = 1 /\ state.swipe[2] = 0

\* the configuration has a delay and no scroll prevention
DelayConfigured == config.delay > 0 /\ config.preventScroll = 0

\* C11: with a delay and no preventScroll, a pointer press starts dragging
\* exactly once: while the press lasts, _delayed holds exactly as long as the
\* dragDelay timer is pending and no drag has started, and afterwards one drag
\* has started; the timer starts the drag with the event captured at
\* pointerDown, an accepted pointerMove starts it with the move's event and
\* removes the timer.
C11_DelayedActivationOnce ==
  [][DelayConfigured =>
       /\ state'._pointerActive =>
            /\ state'._delayed <=> (timeoutStore'["dragDelay"].type # "none")
            /\ drags' = IF state'._delayed THEN 0 ELSE 1
       /\ (state._pointerActive /\ state._delayed /\ op' = "dragDelay"
             /\ nEvents' = nEvents /\ drags' # drags) =>
            /\ ~state'._delayed
            /\ state'.type = "pointerdown"
            /\ state'.timeStamp = timeoutStore["dragDelay"].timeStamp
            /\ state'.active
            /\ emitted' = 1
       /\ (state._pointerActive /\ state._delayed /\ Delivers({"pointerMove"})
             /\ origin' = "captured") =>
            /\ ~state'._delayed
            /\ timeoutStore'["dragDelay"] = NoEvent
            /\ state'.type = "pointermove"
            /\ state'.timeStamp = now'
            /\ state'.active
            /\ drags' = 1
            /\ emitted' = 1]_vars

C11_Witness ==
  /\ DelayConfigured
  /\ op = "pointerMove" /\ origin = "captured"
  /\ state._pointerActive /\ ~state._delayed /\ state.active
  /\ timeoutStore["dragDelay"] = NoEvent
  /\ drags = 1 /\ emitted = 1
  /\ state._movement = <<3, 0>>

C11_WitnessTimer ==
  /\ DelayConfigured
  /\ op = "dragDelay" /\ state._pointerActive /\ ~state._delayed
  /\ drags = 1 /\ emitted = 1 /\ now > state.timeStamp

\* the pointer press waits for the scroll decision
ScrollPending ==
  config.preventScroll # 0 /\ state._pointerActive /\ ~state._preventScroll

\* C12: in Scroll-Pending, the accepted pointerMove that finds the axis
\* determined either rejects the press (axis = preventScrollAxis, or 'xy'):
\* the gesture is inactive, both source flags are cleared, nothing is emitted
\* and no timer is left; or (another axis) removes the forced-activation timer
\* and starts the drag with the move's event.  A rejected press never starts
\* a drag.
C12_ScrollPendingResolution ==
  [][/\ (ScrollPending /\ Delivers({"pointerMove"}) /\ origin' = "captured"
           /\ state'.axis # "undefined") =>
          IF state'.axis = config.preventScrollAxis
             \/ config.preventScrollAxis = "xy"
          THEN /\ ~state'._active /\ ~state'._pointerActive
               /\ ~state'._keyboardActive
               /\ timeoutStore' = NoTimers
               /\ emitted' = 0
               /\ drags' = drags
               /\ rejected'
          ELSE /\ timeoutStore'["startPointerDrag"] = NoEvent
               /\ state'._active /\ state'.active /\ state'._preventScroll
               /\ state'.type = "pointermove"
               /\ state'.timeStamp = now'
               /\ drags' = drags + 1
               /\ emitted' = 1
               /\ ~rejected'
     /\ rejected' => (drags' = 0)]_vars

C12_Witness ==
  /\ rejected /\ op = "pointerMove" /\ origin = "captured"
  /\ config.preventScrollAxis = "y" /\ state.axis = "y"
  /\ ~state._active /\ ~state._pointerActive /\ drags = 0

C12_WitnessOtherAxis ==
  /\ op = "pointerMove" /\ origin = "captured"
  /\ config.preventScroll # 0 /\ config.preventScrollAxis = "y"
  /\ state.axis = "x" /\ state._pointerActive /\ state.active
  /\ drags = 1 /\ emitted = 1

\* C13: an accepted pointerDown with preventScroll configured schedules the
\* forced-activation timer and neither a delay timer nor a drag, whatever the
\* delay; otherwise with a delay it sets _delayed, schedules the dragDelay
\* timer and emits nothing; otherwise it starts the drag and emits in the
\* same handler.
C13_PointerDownBranches ==
  [][(~state._pointerActive /\ Delivers({"pointerDown"})) =>
       /\ state'._pointerActive
       /\ IF config.preventScroll # 0
          THEN /\ timeoutStore'["startPointerDrag"].type = "pointerdown"
               /\ timeoutStore'["startPointerDrag"].timeStamp = now'
               /\ timeoutStore'["dragDelay"] = NoEvent
               /\ eventStore'
               /\ ~state'._delayed
               /\ drags' = 0 /\ emitted' = 0
          ELSE IF config.delay > 0
          THEN /\ state'._delayed
               /\ timeoutStore'["dragDelay"].type = "pointerdown"
               /\ timeoutStore'["dragDelay"].timeStamp = now'
               /\ timeoutStore'["startPointerDrag"] = NoEvent
               /\ drags' = 0 /\ emitted' = 0
          ELSE /\ timeoutStore' = NoTimers
               /\ ~state'._delayed
               /\ state'._active /\ state'.active
               /\ drags' = 1 /\ emitted' = 1]_vars

C13_Witness ==
  /\ op = "pointerDown" /\ origin = "idle" /\ state._pointerActive
  /\ config.preventScroll # 0 /\ config.delay > 0
  /\ timeoutStore["startPointerDrag"].type = "pointerdown"
  /\ ~state._delayed /\ emitted = 0

\* the displacement of 10 x factor along the key's direction, the factor
\* being 10 with shift, else 0.1 with alt, else 1
KeyDisplacement(k) ==
  LET d == IF k[2] THEN 100 ELSE IF k[3] THEN 1 ELSE 10
  IN IF k[1] = "ArrowRight" THEN <<d, 0>>
     ELSE IF k[1] = "ArrowLeft" THEN <<0 - d, 0>>
     ELSE IF k[1] = "ArrowDown" THEN <<0, d>>
     ELSE <<0, 0 - d>>

\* C14: keyDown of an arrow key sets _keyboardActive and adds the key's
\* displacement to _movement (which starts from [0, 0] when the key press
\* begins the gesture).
C14_KeyDownDisplacement ==
  [][(Delivers({"keyDown"}) /\ lastKey'[1] \in ArrowKeys) =>
       /\ state'._keyboardActive
       /\ state'._movement =
            VAdd(IF state._active THEN state._movement ELSE Zero,
                 KeyDisplacement(lastKey'))]_vars

\* C14, for the key presses that continue a gesture (it is already active)
C14_HeldKeyDisplacement ==
  [][(Delivers({"keyDown"}) /\ lastKey'[1] \in ArrowKeys /\ state._active) =>
       /\ state'._keyboardActive
       /\ state'._movement = VAdd(state._movement, KeyDisplacement(lastKey'))
       /\ state'._delta = KeyDisplacement(lastKey')]_vars

\* C15: while the pointer is pressed (_pointerActive), tap is false and swipe
\* is [0, 0].
C15_TapSwipeDefaultsWhilePressed ==
  state._pointerActive => (~state.tap /\ state.swipe = Zero)

\* the step is the callback of a timer of the timeout store
TimerRuns == nEvents' = nEvents /\ op' \in TimerKeys /\ drags' = drags + 1

\* C16: a timer's startPointerDrag runs only while the pointer press that
\* scheduled it lasts: never while _pointerActive is false.
C16_NoStaleTimer == [][TimerRuns => state._pointerActive]_vars

\* C17, as stated: in Scroll-Pending, an accepted pointerMove after which
\* the axis is still undetermined emits nothing and starts no drag, but its
\* delta is added to _movement and the stored position values advances by
\* it.
C17_UndecidedMoveSwallowed ==
  [][(ScrollPending /\ Delivers({"pointerMove"}) /\ origin' = "captured"
        /\ state'.axis = "undefined") =>
       LET delta == VSub(sumDeltas', sumDeltas)
       IN /\ emitted' = 0
          /\ drags' = drags
          /\ state'._pointerActive /\ ~state'._preventScroll
          /\ state'._delta = delta
          /\ state'._movement = VAdd(state._movement, delta)
          /\ state'.values = VAdd(state.values, delta)]_vars

\* C17, amended: in Scroll-Pending, an accepted pointerMove after which the
\* axis is still undetermined emits nothing and starts no drag, but its
\* delta is added to _movement.  Without pointer lock the delta is the new
\* position minus the stored one and values advances by it; under pointer
\* lock the delta is the relative movement the event reports and values is
\* left as it is.
C17_SwallowedMoveAccumulates ==
  [][(ScrollPending /\ Delivers({"pointerMove"}) /\ origin' = "captured"
        /\ state'.axis = "undefined") =>
       LET delta == VSub(sumDeltas', sumDeltas)
       IN /\ emitted' = 0
          /\ drags' = drags
          /\ state'._pointerActive /\ ~state'._preventScroll
          /\ state'._delta = delta
          /\ state'._movement = VAdd(state._movement, delta)
          /\ state'.values = IF Locked THEN state.values
                             ELSE VAdd(state.values, delta)]_vars

\* an undecided move without pointer lock
C17_Witness ==
  /\ ScrollPending /\ op = "pointerMove" /\ origin = "captured"
  /\ state.axis = "undefined"
  /\ state._movement = <<4, 4>> /\ state.values = <<4, 4>>
  /\ emitted = 0 /\ drags = 0

\* an undecided move under pointer lock: the movement grows, values does not
C17_WitnessLocked ==
  /\ ScrollPending /\ op = "pointerMove" /\ origin = "captured"
  /\ Locked
  /\ state.axis = "undefined"
  /\ state._delta = <<4, 4>> /\ state._movement = <<4, 4>>
  /\ state.values = <<0, 0>>
  /\ emitted = 0 /\ drags = 0

\* C18: the callback of a cancel() requested in an earlier gesture neither
\* sets canceled nor clears _active of the gesture that has begun since.
C18_CancelAffectsOwnGesture ==
  [][(cancelTimeouts' < cancelTimeouts /\ staleCancels > 0) =>
       /\ state'.canceled = state.canceled
       /\ state'._active = state._active]_vars

\* C19: _delayed implies that the pointer is pressed and the dragDelay timer
\* is pending.
C19_DelayedImpliesPendingTimer ==
  state._delayed =>
    (state._pointerActive /\ timeoutStore["dragDelay"].type # "none")

\* C20: in a gesture without pointer lock (nothing locks the pointer) and
\* without key events, _movement is values - initial after every handler.
C20_MovementTelescopes ==
  (~config.pointerLock /\ ~env.otherLock /\ ~keyed) =>
    state._movement = VSub(state.values, state.initial)

\* C20 holds as long as the touch listener of the scroll prevention (clean)
\* has not run
C20_TelescopesWithoutClean ==
  (~config.pointerLock /\ ~env.otherLock /\ ~keyed
     /\ config.preventScroll = 0) =>
    state._movement = VSub(state.values, state.initial)

====
